---- MODULE Spec2Model ----
(***************************************************************************)
(* Model of the financial-model endpoints of backend/app: the two tables   *)
(* financial_models and model_versions, and the requests create / update / *)
(* delete / get running against them, one SQLAlchemy session per request.  *)
(* Every db.commit() and every SELECT a handler issues is one step, so     *)
(* other requests (and a failure of the request) can fall between them.    *)
(* The second part models services/model_runner.run_model: the calls in    *)
(* progress in the worker threads, the process-wide sys.stdout they swap,  *)
(* and the namespaces the code is executed in.                             *)
(***************************************************************************)
EXTENDS Integers, Sequences, FiniteSets, TLC

\* ------------------------------------------------------------------ bounds
\* Number of requests that are ever started.
MaxRequests == 3
\* Number of Models that are ever created.
MaxModels == 2

\* ------------------------------------------------------------------ values
\* A nullable value: NONE is Python's None / SQL NULL, Some(x) a value.
NONE == << >>
Some(x) == << x >>

Codes == {"c1", "c2"}
\* Parameter mappings are nested JSON values; equality on them is deep.
Params == {[growth |-> [rate |-> 5]], [growth |-> [rate |-> 7]]}
Names == {"n1", "n2"}

OptCodes == {NONE} \cup {Some(c) : c \in Codes}
OptParams == {NONE} \cup {Some(p) : p \in Params}
OptNames == {NONE} \cup {Some(n) : n \in Names}

\* The stream sys.stdout is at startup; the StringIO of call c is stream c.
Terminal == 0

\* The registry dicts as the module defines them, name -> the object bound.
\* One module and two builtins stand for the seven modules and twenty-one
\* builtins listed: the code treats every entry alike.
StartupModules == [n \in {"math"} |-> "module"]
StartupBuiltins == [n \in {"print", "len"} |-> "builtin"]

\* The attributes of the registry's module objects as imported: math.tau.
StartupAttrs == [n \in {"math"} |-> "tau"]

\* No template is being run.
NoTemplate == [pc |-> "none"]

\* Names of Python's builtins module, the allowed ones and others.
PyBuiltins == {"print", "len", "open", "__import__"}

\* Columns of financial_models a request body can carry.
FieldNames == {"code", "parameters", "name"}

\* FinancialModelCreate: every field is required and non-null. The values are
\* interchangeable labels, so one creation body stands for all of them; the
\* updates range over equal and different values.
CreateInputs ==
    {[fields_set |-> FieldNames, code |-> Some("c1"),
      parameters |-> Some([growth |-> [rate |-> 5]]), name |-> Some("n1")]}

\* FinancialModelUpdate: every field Optional with default None; fields_set is
\* the set of fields the body names (what exclude_unset keeps).
UpdateInputs ==
    {i \in [fields_set : SUBSET FieldNames, code : OptCodes, parameters : OptParams,
            name : OptNames] :
        /\ \A f \in FieldNames \ i.fields_set : i[f] = NONE
        /\ "name" \in i.fields_set => i.name = Some("n2")}

NoInput == [fields_set |-> {}, code |-> NONE, parameters |-> NONE, name |-> NONE]

\* A row of financial_models that a session has not loaded.
BlankRow == [code |-> NONE, parameters |-> NONE, name |-> NONE]

VARIABLES
    models,         \* financial_models: id -> row, the committed rows
    versions,       \* model_versions: the committed rows
    nextModelId,    \* serial of financial_models.id
    nextVersionId,  \* serial of model_versions.id
    req,            \* the requests started so far, in order of arrival
    lastWrite,      \* history: model id -> request whose Model write committed last
    calls,          \* the run_model calls started so far, in order of arrival
    sys_stdout,     \* sys.stdout: the stream installed in the process
    ALLOWED_MODULES,    \* the module-level dict, name -> binding
    ALLOWED_BUILTINS,   \* the module-level dict, name -> binding
    effects,        \* history: what executed code did on the host, <<call, action>>
    access,         \* financial_models: id -> the columns owner_id and is_public
    module_attrs,   \* the attributes of the module objects the registry binds
    template,       \* the run of a generated template: its parameters and arrays
    conversations,  \* llm_service.conversations: conversation_id -> messages
    chat            \* the get_model_response calls started so far

\* The state run_model works on.
runnerVars == <<calls, sys_stdout, ALLOWED_MODULES, ALLOWED_BUILTINS, effects, module_attrs>>

\* The state of the template run and of the chat service.
serviceVars == <<template, conversations, chat>>

vars == <<models, versions, nextModelId, nextVersionId, req, lastWrite, access,
          runnerVars, serviceVars>>

Requests == 1..Len(req)
ModelIds == 1..(nextModelId - 1)
Final == {"done", "failed", "rejected"}
InFlight(r) == req[r].pc \notin Final
Idle == \A r \in Requests : ~InFlight(r)

Max(S) == CHOOSE x \in S : \A y \in S : y <= x

VersionsOf(mid) == {v \in versions : v.model_id = Some(mid)}

\* ------------------------------------------------------- pure computations
\* A slip of NextVersionNumber: the maximum is taken and not incremented.
NextVersionNumber_NoIncrement(vs) ==
    IF Cardinality(vs) > 0 THEN Max({v.version_number : v \in vs}) ELSE 1

\* version_number = 1, or max over model.versions + 1 when there are any.
NextVersionNumber(vs) ==
    IF Cardinality(vs) > 0 THEN Max({v.version_number : v \in vs}) + 1 ELSE 1

\* A slip of CreateNewVersion: the comparison with the current value is left
\* out, a supplied code or parameters always asks for a version.
CreateNewVersion_IfSupplied(inp, row) ==
    inp.code # NONE \/ inp.parameters # NONE

\* The condition under which update_financial_model sets create_new_version.
CreateNewVersion(inp, row) ==
    \/ (inp.code # NONE /\ inp.code # row.code)
    \/ (inp.parameters # NONE /\ inp.parameters # row.parameters)

\* setattr(model, field, value) for every field the body names.
SetAttrs(inp, row) ==
    [f \in FieldNames |-> IF f \in inp.fields_set THEN inp[f] ELSE row[f]]

\* The columns the session's flush writes: those whose value now differs from
\* the value the session loaded.
DirtyFields(loaded, row) == {f \in FieldNames : row[f] # loaded[f]}

\* The UPDATE of the flush applied to the committed row.
Flush(stored, loaded, row) ==
    [f \in FieldNames |-> IF f \in DirtyFields(loaded, row) THEN row[f] ELSE stored[f]]

NewVersion(id, mid, n, row, kind, r) ==
    [id |-> id, model_id |-> Some(mid), version_number |-> n,
     code |-> row.code, parameters |-> row.parameters,
     description |-> <<kind, n, row.name>>, by |-> r]

\* The body carries code and parameters equal to those of the row.
IdenticalTo(inp, row) == inp.code = row.code /\ inp.parameters = row.parameters

\* wrote, inserted and identical are history: whether the request committed a
\* Model write, inserted its Version, and arrived with code and parameters
\* identical to the stored ones. So are foreign, ran_on and shown: whether
\* the requesting user was not the Model's owner, the parameters a run passed
\* to run_model and the parameters of the Model it returned.
NewRequest(kind, pc, mid, inp, row) ==
    [kind |-> kind, pc |-> pc, mid |-> mid, inp |-> inp,
     loaded |-> row, row |-> row, version_number |-> 1,
     create_new_version |-> FALSE, wrote |-> FALSE, inserted |-> FALSE,
     identical |-> IdenticalTo(inp, row),
     user |-> 1, foreign |-> FALSE, ran_on |-> NONE, shown |-> NONE]

\* -------------------------------------------------------------------- Init
Startup ==
    /\ models = << >>
    /\ versions = {}
    /\ nextModelId = 1
    /\ nextVersionId = 1
    /\ req = << >>
    /\ lastWrite = << >>
    /\ calls = << >>
    /\ sys_stdout = Terminal
    /\ ALLOWED_MODULES = StartupModules
    /\ ALLOWED_BUILTINS = StartupBuiltins
    /\ effects = {}
    /\ access = << >>
    /\ module_attrs = StartupAttrs
    /\ template = NoTemplate

Init ==
    /\ Startup
    /\ conversations = << >>
    /\ chat = << >>

\* ----------------------------------------------------------------- actions
\* The request ends (get_db closes its session): its body and the objects its
\* session loaded are gone.
Finish(rec, pc) ==
    [rec EXCEPT !.pc = pc, !.inp = NoInput, !.row = BlankRow, !.loaded = BlankRow]

\* The users that send requests; user 1 sends those of Next, SeqNext and
\* EndpointsNext.
Users == {1, 2}

\* create_financial_model up to its first db.commit(): the Model row is
\* inserted and committed, with owner_id the requesting user and is_public
\* as the body says (False when the body does not name it).
CreateInsertModelAs(user, is_public, inp) ==
    /\ Len(req) < MaxRequests
    /\ nextModelId <= MaxModels
    /\ LET row == SetAttrs(inp, BlankRow)
           r == Len(req) + 1
       IN /\ models' = (nextModelId :> row) @@ models
          /\ access' = (nextModelId :> [owner_id |-> user, is_public |-> is_public])
                          @@ access
          /\ lastWrite' = (nextModelId :> r) @@ lastWrite
          /\ req' = Append(req, [NewRequest("create", "refresh", nextModelId, inp, row)
                                   EXCEPT !.wrote = TRUE, !.create_new_version = TRUE,
                                          !.user = user])
    /\ nextModelId' = nextModelId + 1
    /\ UNCHANGED <<versions, nextVersionId, runnerVars, serviceVars>>

\* A private Model created by user 1.
CreateInsertModel(inp) == CreateInsertModelAs(1, FALSE, inp)

\* db.refresh(model): the session reloads the committed row; the handler
\* returns here when it has no version to create.
Refresh(r) ==
    /\ req[r].pc = "refresh"
    /\ LET mid == req[r].mid
       IN IF mid \notin DOMAIN models
          THEN req' = [req EXCEPT ![r] = Finish(@, "failed")]
          ELSE IF req[r].create_new_version
          THEN req' = [req EXCEPT ![r].row = models[mid], ![r].loaded = models[mid],
                                  ![r].pc = "version"]
          ELSE req' = [req EXCEPT ![r] = Finish(@, "done")]
    /\ UNCHANGED <<models, versions, nextModelId, nextVersionId, lastWrite, access, runnerVars, serviceVars>>

\* The ModelVersion built from the refreshed model is inserted and committed.
InsertVersion(r) ==
    /\ req[r].pc = "version"
    /\ IF req[r].mid \in DOMAIN models
       THEN /\ versions' = versions \cup
                 {NewVersion(nextVersionId, req[r].mid, req[r].version_number, req[r].row,
                             IF req[r].kind = "create" THEN "Initial version" ELSE "Version",
                             r)}
            /\ nextVersionId' = nextVersionId + 1
            /\ req' = [req EXCEPT ![r] = Finish([@ EXCEPT !.inserted = TRUE], "done")]
       ELSE /\ req' = [req EXCEPT ![r] = Finish(@, "failed")]
            /\ UNCHANGED <<versions, nextVersionId>>
    /\ UNCHANGED <<models, nextModelId, lastWrite, access, runnerVars, serviceVars>>

\* The check of get_financial_model: 403 is raised when the user is not the
\* owner and the Model is not public.
MayAccess(user, entry) == ~(entry.owner_id # user /\ ~entry.is_public)

\* The dependency get_financial_model: load the row, 404 when there is none,
\* 403 when the user may not access it.
GetFinancialModelAs(user, kind, mid, inp) ==
    /\ Len(req) < MaxRequests
    /\ mid \in ModelIds
    /\ IF mid \in DOMAIN models
       THEN req' = Append(req,
                     [NewRequest(kind,
                                 IF MayAccess(user, access[mid]) THEN "loaded" ELSE "rejected",
                                 mid, inp,
                                 IF MayAccess(user, access[mid]) THEN models[mid] ELSE BlankRow)
                        EXCEPT !.user = user, !.foreign = access[mid].owner_id # user])
       ELSE req' = Append(req, [NewRequest(kind, "rejected", mid, inp, BlankRow)
                                  EXCEPT !.user = user])
    /\ UNCHANGED <<models, versions, nextModelId, nextVersionId, lastWrite, access, runnerVars, serviceVars>>

\* A request of user 1.
GetFinancialModel(kind, mid, inp) == GetFinancialModelAs(1, kind, mid, inp)

\* get_financial_model_by_id returns the loaded model.
GetById(r) ==
    /\ req[r].kind = "get"
    /\ req[r].pc = "loaded"
    /\ req' = [req EXCEPT ![r] = Finish(@, "done")]
    /\ UNCHANGED <<models, versions, nextModelId, nextVersionId, lastWrite, access, runnerVars, serviceVars>>

\* update_financial_model up to the setattr loop: model.versions is read,
\* the version number and create_new_version computed, the attributes set.
UpdateCompare(r) ==
    /\ req[r].kind = "update"
    /\ req[r].pc = "loaded"
    /\ req' = [req EXCEPT
                 ![r].version_number = NextVersionNumber(VersionsOf(req[r].mid)),
                 ![r].create_new_version = CreateNewVersion(req[r].inp, req[r].row),
                 ![r].row = SetAttrs(req[r].inp, req[r].row),
                 ![r].pc = "commit"]
    /\ UNCHANGED <<models, versions, nextModelId, nextVersionId, lastWrite, access, runnerVars, serviceVars>>

\* db.add(model); db.commit(): the changed columns are written and committed.
UpdateCommitModel(r) ==
    /\ req[r].kind = "update"
    /\ req[r].pc = "commit"
    /\ LET mid == req[r].mid
           dirty == DirtyFields(req[r].loaded, req[r].row) # {}
       IN IF dirty /\ mid \notin DOMAIN models
          THEN /\ req' = [req EXCEPT ![r] = Finish(@, "failed")]
               /\ UNCHANGED <<models, lastWrite>>
          ELSE /\ req' = [req EXCEPT ![r].pc = "refresh", ![r].wrote = dirty]
               /\ IF dirty
                  THEN /\ models' = [models EXCEPT
                                       ![mid] = Flush(models[mid], req[r].loaded, req[r].row)]
                       /\ lastWrite' = [lastWrite EXCEPT ![mid] = r]
                  ELSE UNCHANGED <<models, lastWrite>>
    /\ UNCHANGED <<versions, nextModelId, nextVersionId, access, runnerVars, serviceVars>>

\* A slip of DeleteCommit: the UPDATE that detaches the versions has no
\* WHERE model_id = :id, it detaches the versions of every Model.
DeleteCommit_DetachAll(r) ==
    /\ req[r].kind = "delete"
    /\ req[r].pc = "loaded"
    /\ LET mid == req[r].mid
       IN IF mid \in DOMAIN models
          THEN /\ models' = [m \in DOMAIN models \ {mid} |-> models[m]]
               /\ versions' = {[v EXCEPT !.model_id = NONE] : v \in versions}
               /\ access' = [m \in DOMAIN access \ {mid} |-> access[m]]
               /\ req' = [req EXCEPT ![r] = Finish(@, "done")]
          ELSE /\ req' = [req EXCEPT ![r] = Finish(@, "failed")]
               /\ UNCHANGED <<models, versions, access>>
    /\ UNCHANGED <<nextModelId, nextVersionId, lastWrite, runnerVars, serviceVars>>

\* delete_financial_model: db.delete(model); db.commit(). The relationship
\* versions has no delete cascade, so the flush sets model_id of the model's
\* versions to NULL and deletes the Model row.
DeleteCommit(r) ==
    /\ req[r].kind = "delete"
    /\ req[r].pc = "loaded"
    /\ LET mid == req[r].mid
       IN IF mid \in DOMAIN models
          THEN /\ models' = [m \in DOMAIN models \ {mid} |-> models[m]]
               /\ versions' = {IF v.model_id = Some(mid) THEN [v EXCEPT !.model_id = NONE]
                                                         ELSE v : v \in versions}
               /\ access' = [m \in DOMAIN access \ {mid} |-> access[m]]
               /\ req' = [req EXCEPT ![r] = Finish(@, "done")]
          ELSE /\ req' = [req EXCEPT ![r] = Finish(@, "failed")]
               /\ UNCHANGED <<models, versions, access>>
    /\ UNCHANGED <<nextModelId, nextVersionId, lastWrite, runnerVars, serviceVars>>

\* A request that is past its first db.commit() fails before its next step
\* (the connection drops, the worker dies): what it committed stays, what it
\* had not committed is never written. A failure before the first commit
\* leaves no trace in the tables.
Fail(r) ==
    /\ req[r].pc \in {"refresh", "version"}
    /\ req' = [req EXCEPT ![r] = Finish(@, "failed")]
    /\ UNCHANGED <<models, versions, nextModelId, nextVersionId, lastWrite, access, runnerVars, serviceVars>>

\* ----------------------------------------------------------- specification
\* Requests arrive at any time and their steps interleave freely.
Next ==
    \/ \E inp \in CreateInputs : CreateInsertModel(inp)
    \/ \E mid \in ModelIds, inp \in UpdateInputs : GetFinancialModel("update", mid, inp)
    \/ \E mid \in ModelIds : GetFinancialModel("delete", mid, NoInput)
    \/ \E mid \in ModelIds : GetFinancialModel("get", mid, NoInput)
    \/ \E r \in Requests : Refresh(r)
    \/ \E r \in Requests : InsertVersion(r)
    \/ \E r \in Requests : GetById(r)
    \/ \E r \in Requests : UpdateCompare(r)
    \/ \E r \in Requests : UpdateCommitModel(r)
    \/ \E r \in Requests : DeleteCommit(r)
    \/ \E r \in Requests : Fail(r)

Spec == Init /\ [][Next]_vars

\* Requests executed one at a time: a request arrives only when none is in flight.
SeqNext ==
    \/ Idle /\ \E inp \in CreateInputs : CreateInsertModel(inp)
    \/ Idle /\ \E mid \in ModelIds, inp \in UpdateInputs :
                  GetFinancialModel("update", mid, inp)
    \/ Idle /\ \E mid \in ModelIds : GetFinancialModel("delete", mid, NoInput)
    \/ Idle /\ \E mid \in ModelIds : GetFinancialModel("get", mid, NoInput)
    \/ \E r \in Requests : Refresh(r)
    \/ \E r \in Requests : InsertVersion(r)
    \/ \E r \in Requests : GetById(r)
    \/ \E r \in Requests : UpdateCompare(r)
    \/ \E r \in Requests : UpdateCommitModel(r)
    \/ \E r \in Requests : DeleteCommit(r)
    \/ \E r \in Requests : Fail(r)

SeqSpec == Init /\ [][SeqNext]_vars

\* ------------------------------------------------- the reading endpoints
\* Body of POST /{model_id}/run: no parameters, or a non-empty mapping.
RunInputs ==
    {NoInput, [NoInput EXCEPT !.fields_set = {"parameters"},
                              !.parameters = Some([growth |-> [rate |-> 7]])]}

\* The version_number path parameter of GET /{model_id}/versions/{n}.
VersionNumbers == 1..2

\* dict.update: the keys of override replace or extend those of stored.
Merge(stored, override) ==
    [k \in DOMAIN stored \cup DOMAIN override |->
        IF k \in DOMAIN override THEN override[k] ELSE stored[k]]

\* model_params = model.parameters; model_params.update(parameters): the
\* dict the session loaded, after the body's parameters were merged into it.
ModelParams(loaded, override) ==
    IF override # NONE THEN Some(Merge(loaded[1], override[1])) ELSE loaded

\* run_financial_model: the body's parameters are merged into the dict the
\* session loaded (an AttributeError when the column is NULL), run_model is
\* called and its result returned with the loaded model's attributes;
\* nothing is added to the session or committed.
RunFinancialModel(r) ==
    /\ req[r].kind = "run"
    /\ req[r].pc = "loaded"
    /\ IF req[r].inp.parameters # NONE /\ req[r].row.parameters = NONE
       THEN req' = [req EXCEPT ![r] = Finish(@, "failed")]
       ELSE req' = [req EXCEPT ![r] =
                      Finish([@ EXCEPT
                                !.ran_on = ModelParams(req[r].row.parameters,
                                                       req[r].inp.parameters),
                                !.shown = ModelParams(req[r].row.parameters,
                                                      req[r].inp.parameters)],
                             "done")]
    /\ UNCHANGED <<models, versions, nextModelId, nextVersionId, lastWrite, access, runnerVars, serviceVars>>

\* list_model_versions returns model.versions.
ListModelVersions(r) ==
    /\ req[r].kind = "list_versions"
    /\ req[r].pc = "loaded"
    /\ req' = [req EXCEPT ![r] = Finish(@, "done")]
    /\ UNCHANGED <<models, versions, nextModelId, nextVersionId, lastWrite, access, runnerVars, serviceVars>>

\* get_model_version: the first row with this model_id and version_number,
\* 404 when there is none.
GetModelVersion(r, version_number) ==
    /\ req[r].kind = "get_version"
    /\ req[r].pc = "loaded"
    /\ IF \E v \in VersionsOf(req[r].mid) : v.version_number = version_number
       THEN req' = [req EXCEPT ![r] = Finish(@, "done")]
       ELSE req' = [req EXCEPT ![r] = Finish(@, "rejected")]
    /\ UNCHANGED <<models, versions, nextModelId, nextVersionId, lastWrite, access, runnerVars, serviceVars>>

\* Every endpoint of the router that takes a Model, requests one at a time.
EndpointsNext ==
    \/ Idle /\ \E inp \in CreateInputs : CreateInsertModel(inp)
    \/ Idle /\ \E mid \in ModelIds, inp \in UpdateInputs :
                  GetFinancialModel("update", mid, inp)
    \/ Idle /\ \E mid \in ModelIds : GetFinancialModel("delete", mid, NoInput)
    \/ Idle /\ \E mid \in ModelIds : GetFinancialModel("get", mid, NoInput)
    \/ Idle /\ \E mid \in ModelIds, inp \in RunInputs : GetFinancialModel("run", mid, inp)
    \/ Idle /\ \E mid \in ModelIds : GetFinancialModel("list_versions", mid, NoInput)
    \/ Idle /\ \E mid \in ModelIds : GetFinancialModel("get_version", mid, NoInput)
    \/ \E r \in Requests : Refresh(r)
    \/ \E r \in Requests : InsertVersion(r)
    \/ \E r \in Requests : GetById(r)
    \/ \E r \in Requests : UpdateCompare(r)
    \/ \E r \in Requests : UpdateCommitModel(r)
    \/ \E r \in Requests : DeleteCommit(r)
    \/ \E r \in Requests : RunFinancialModel(r)
    \/ \E r \in Requests : ListModelVersions(r)
    \/ \E r \in Requests, n \in VersionNumbers : GetModelVersion(r, n)
    \/ \E r \in Requests : Fail(r)

EndpointsSpec == Init /\ [][EndpointsNext]_vars

\* ------------------------------------------------------ owners and users
\* Update bodies of the requests of either user.
AuthUpdateInputs ==
    {[NoInput EXCEPT !.fields_set = {"code"}, !.code = Some("c2")],
     [NoInput EXCEPT !.fields_set = {"name"}, !.name = Some("n2")]}

\* Requests of two users, one at a time, on private and public Models.
AuthNext ==
    \/ Idle /\ \E user \in Users, is_public \in BOOLEAN, inp \in CreateInputs :
                  CreateInsertModelAs(user, is_public, inp)
    \/ Idle /\ \E user \in Users, mid \in ModelIds, inp \in AuthUpdateInputs :
                  GetFinancialModelAs(user, "update", mid, inp)
    \/ Idle /\ \E user \in Users, mid \in ModelIds :
                  GetFinancialModelAs(user, "delete", mid, NoInput)
    \/ Idle /\ \E user \in Users, mid \in ModelIds :
                  GetFinancialModelAs(user, "get", mid, NoInput)
    \/ \E r \in Requests : Refresh(r)
    \/ \E r \in Requests : InsertVersion(r)
    \/ \E r \in Requests : GetById(r)
    \/ \E r \in Requests : UpdateCompare(r)
    \/ \E r \in Requests : UpdateCommitModel(r)
    \/ \E r \in Requests : DeleteCommit(r)
    \/ \E r \in Requests : Fail(r)

AuthSpec == Init /\ [][AuthNext]_vars

\* -------------------------------------------------------------- run_model
\* Number of run_model calls that are ever started.
MaxCalls == 2
\* Iterations of a non-terminating loop that are followed.
MaxTicks == 2

\* The tables run_model does not touch.
dbVars == <<models, versions, nextModelId, nextVersionId, req, lastWrite, access>>

\* A statement of the code text and a code text: whether ast.parse accepts
\* it, and its top-level statements.
Stmt(op, arg) == [op |-> op, arg |-> arg]
Source(parses, stmts) == [parses |-> parses, stmts |-> stmts]

\* print(<text of this call>)            Stmt("print", "")
\* name = 0                              Stmt("rebind", name)
\* del name                              Stmt("del", name)
\* global name; name = 0                 Stmt("global", name)
\* raise type()                          Stmt("raise", type)
\* while True: pass                      Stmt("loop", "")
\* open("f", "w")                        Stmt("call", "open")
\* import os                             Stmt("import", "os")
\* parameters.get("periods")             Stmt("get", "parameters")
\* result = {key: <value>}               Stmt("bind", key)
\* math.tau = 0                          Stmt("setattr", "math")
\* parameters["n"] = 1                   Stmt("setparam", "n")
Programs ==
    {Source(FALSE, <<Stmt("print", "")>>),
     Source(TRUE, <<Stmt("print", "")>>),
     Source(TRUE, <<Stmt("rebind", "result")>>),
     Source(TRUE, <<Stmt("raise", "ValueError")>>),
     Source(TRUE, <<Stmt("raise", "SystemExit")>>),
     Source(TRUE, <<Stmt("loop", "")>>),
     Source(TRUE, <<Stmt("call", "open")>>),
     Source(TRUE, <<Stmt("import", "os")>>),
     Source(TRUE, <<Stmt("get", "parameters")>>),
     Source(TRUE, <<Stmt("del", "print"), Stmt("global", "math")>>)}

\* The arguments of a call: code is a text or None, parameters a mapping or
\* (with the code that reads it) a list.
RunModelInputs ==
    {[code |-> Some(p), parameters |-> "mapping"] : p \in Programs}
    \cup {[code |-> NONE, parameters |-> "mapping"],
          [code |-> Some(Source(TRUE, <<Stmt("get", "parameters")>>)), parameters |-> "list"]}

Calls == 1..Len(calls)
Ended == {"returned", "raised"}

\* Exceptions that `except Exception` does not catch.
BaseExceptionsOnly == {"SystemExit", "KeyboardInterrupt", "GeneratorExit"}

\* locals_dict = {**ALLOWED_BUILTINS, 'parameters': parameters, 'result': result}
LocalsDict(builtins, parameters) ==
    [n \in {"parameters", "result"} |-> IF n = "result" THEN "dict" ELSE parameters]
        @@ builtins

\* globals_dict = {**ALLOWED_MODULES}
GlobalsDict(modules) == modules

\* A slip of ModulesAfterExec: globals_dict = ALLOWED_MODULES, the namespace is
\* the registry dict itself and every store into it is a store into the registry.
ModulesAfterExec_Aliased(modules, g) == g

\* ALLOWED_MODULES after a statement that left the globals namespace as g:
\* the namespace is a new dict, the dict it was built from is as before.
ModulesAfterExec(modules, g) == modules

\* exec(code, globals, locals) inserts a reference to the builtins module
\* under '__builtins__' when globals has no such key.
ExecGlobals(g) ==
    IF "__builtins__" \in DOMAIN g THEN g ELSE ("__builtins__" :> "builtins") @@ g

\* What a name evaluates to in the executed code: locals, then globals, then
\* the builtins module found under globals['__builtins__'].
Resolve(name, call) ==
    IF name \in DOMAIN call.locals_dict THEN call.locals_dict[name]
    ELSE IF name \in DOMAIN call.globals_dict THEN call.globals_dict[name]
    ELSE IF "__builtins__" \in DOMAIN call.globals_dict /\ name \in PyBuiltins
         THEN "builtin"
    ELSE "NameError"

NoNamespace == << >>

\* The call is over: its frame and namespaces are gone.
EndCall(call, pc) ==
    [call EXCEPT !.pc = pc, !.locals_dict = NoNamespace, !.globals_dict = NoNamespace,
                 !.new_stdout = << >>]

\* A mapping without keys: the dict `result` is at line 61.
EmptyMapping == [k \in {} |-> ""]

\* The value the code stores under a key of the mapping it binds to result:
\* a number, a DataFrame, a text of its own, or what math.tau is at that time.
BoundValue(key, attrs) ==
    CASE key = "table" -> "DataFrame"
      [] key \in {"error", "console_output"} -> "own"
      [] key = "tau" -> attrs["math"]
      [] OTHER -> "1"

\* run_model up to `old_stdout = sys.stdout`: the namespaces are built from
\* the registry and the stream that is installed is remembered.
RunModel(inp) ==
    /\ Len(calls) < MaxCalls
    /\ calls' = Append(calls,
          [code |-> inp.code, parameters |-> inp.parameters, pc |-> "install", ip |-> 1,
           globals_dict |-> GlobalsDict(ALLOWED_MODULES),
           locals_dict |-> LocalsDict(ALLOWED_BUILTINS, inp.parameters),
           old_stdout |-> sys_stdout, new_stdout |-> << >>,
           result |-> "dict", error |-> NONE, raising |-> NONE,
           console_output |-> NONE, ticks |-> 0,
           executed |-> 0, printed |-> 0, thrown |-> NONE,
           parameter_keys |-> {}, bound |-> EmptyMapping, items |-> EmptyMapping,
           returned |-> EmptyMapping])
    /\ UNCHANGED <<sys_stdout, ALLOWED_MODULES, ALLOWED_BUILTINS, effects, module_attrs, dbVars, serviceVars>>

\* new_stdout = io.StringIO(); sys.stdout = new_stdout; try: ast.parse(code):
\* a TypeError for None, a SyntaxError for a text that does not parse, both
\* caught by `except Exception`; otherwise exec begins. (The parse touches
\* nothing another thread sees, so it is one step with the assignment.)
InstallStdout(c) ==
    /\ calls[c].pc = "install"
    /\ sys_stdout' = c
    /\ calls' = [calls EXCEPT ![c] =
          IF @.code = NONE THEN [@ EXCEPT !.error = Some("TypeError"), !.pc = "finally"]
          ELSE IF ~@.code[1].parses
               THEN [@ EXCEPT !.error = Some("SyntaxError"), !.pc = "finally"]
          ELSE [@ EXCEPT !.globals_dict = ExecGlobals(@), !.pc = "exec"]]
    /\ UNCHANGED <<ALLOWED_MODULES, ALLOWED_BUILTINS, effects, module_attrs, dbVars, serviceVars>>

\* The exception leaves exec: `except Exception` records it, any other
\* BaseException goes on to the caller once the finally block has run.
\* executed, printed and thrown are history: the statements the call began,
\* the prints it made, the exception its code raised.
Raised(call, type) ==
    IF type \in BaseExceptionsOnly
    THEN [call EXCEPT !.raising = Some(type), !.pc = "finally", !.executed = @ + 1,
                      !.thrown = Some(type)]
    ELSE [call EXCEPT !.error = Some(type), !.pc = "finally", !.executed = @ + 1,
                      !.thrown = Some(type)]

\* A slip of Normalize: the DataFrame is left in the result as it is.
Normalize_Unconverted(value) == value

\* value.to_dict(orient='records') for a DataFrame, any other value as it is.
Normalize(value) == IF value = "DataFrame" THEN "rows" ELSE value

\* After exec: result = locals_dict.get('result', {}); figures; for ... in
\* result.items(): an AttributeError, caught, when result was rebound to a
\* non-mapping; the DataFrames among the values are converted.
\* bound is the content of the mapping the name result is bound to in the
\* namespace, items the content of run_model's own variable result.
ReadResult(call) ==
    LET result == IF "result" \in DOMAIN call.locals_dict
                  THEN call.locals_dict["result"] ELSE "dict"
    IN [call EXCEPT !.result = result, !.pc = "finally",
                    !.error = IF result = "dict" THEN NONE ELSE Some("AttributeError"),
                    !.items = IF result = "dict" /\ "result" \in DOMAIN call.locals_dict
                              THEN [k \in DOMAIN call.bound |-> Normalize(call.bound[k])]
                              ELSE EmptyMapping]

\* The statement completed: on to the next one, or out of exec and on to the
\* end of the try block.
Completed(call) ==
    IF call.ip = Len(call.code[1].stmts)
    THEN ReadResult([call EXCEPT !.ip = @ + 1, !.executed = @ + 1])
    ELSE [call EXCEPT !.ip = @ + 1, !.executed = @ + 1]

\* print writes to the stream sys.stdout is when the statement runs. Text
\* that reaches the terminal, or a StringIO whose value was already taken,
\* is not read by any call.
Written(cs, c) ==
    IF sys_stdout # Terminal /\ cs[sys_stdout].pc \notin Ended
    THEN [cs EXCEPT ![sys_stdout].new_stdout = Append(@, c)]
    ELSE cs

\* One top-level statement of exec(code, globals_dict, locals_dict).
ExecStatement(c) ==
    /\ calls[c].pc = "exec"
    /\ LET call == calls[c]
           st == call.code[1].stmts[call.ip]
           after ==
             CASE st.op = "print" ->
                    IF Resolve("print", call) = "builtin"
                    THEN Completed([call EXCEPT !.printed = @ + 1])
                    ELSE IF Resolve("print", call) = "NameError"
                         THEN Raised(call, "NameError")
                    ELSE Raised(call, "TypeError")
               [] st.op = "rebind" ->
                    Completed([call EXCEPT !.locals_dict = (st.arg :> "user") @@ @])
               [] st.op = "del" ->
                    IF st.arg \in DOMAIN call.locals_dict
                    THEN Completed([call EXCEPT
                            !.locals_dict = [n \in DOMAIN @ \ {st.arg} |-> @[n]],
                            !.bound = IF st.arg = "result" THEN EmptyMapping ELSE @])
                    ELSE Raised(call, "NameError")
               [] st.op = "bind" ->
                    Completed([call EXCEPT
                       !.locals_dict = ("result" :> "dict") @@ @,
                       !.bound = [k \in {st.arg} |-> BoundValue(st.arg, module_attrs)]])
               [] st.op = "setattr" ->
                    IF Resolve(st.arg, call) = "module"
                    THEN Completed(call)
                    ELSE Raised(call, "AttributeError")
               [] st.op = "setparam" ->
                    IF call.parameters = "mapping"
                    THEN Completed([call EXCEPT !.parameter_keys = @ \cup {st.arg}])
                    ELSE Raised(call, "TypeError")
               [] st.op = "global" ->
                    Completed([call EXCEPT !.globals_dict = (st.arg :> "user") @@ @])
               [] st.op = "raise" -> Raised(call, st.arg)
               [] st.op = "loop" -> [call EXCEPT !.ticks = @ + 1]
               [] st.op = "call" ->
                    IF Resolve(st.arg, call) = "NameError"
                    THEN Raised(call, "NameError")
                    ELSE Completed(call)
               [] st.op = "import" ->
                    IF Resolve("__import__", call) = "NameError"
                    THEN Raised(call, "ImportError")
                    ELSE Completed([call EXCEPT !.locals_dict = (st.arg :> "module") @@ @])
               [] st.op = "get" ->
                    IF call.parameters = "mapping"
                    THEN Completed(call)
                    ELSE Raised(call, "AttributeError")
           did == after.ip > call.ip
       IN /\ st.op = "loop" => call.ticks < MaxTicks
          /\ calls' = [IF st.op = "print" /\ did THEN Written(calls, c) ELSE calls
                         EXCEPT ![c] = [after EXCEPT !.new_stdout =
                              IF st.op = "print" /\ did /\ sys_stdout = c
                              THEN Append(call.new_stdout, c) ELSE call.new_stdout]]
          /\ effects' = IF st.op \in {"call", "import"} /\ did
                        THEN effects \cup {<<c, st.op, st.arg>>} ELSE effects
          /\ ALLOWED_MODULES' = ModulesAfterExec(ALLOWED_MODULES, after.globals_dict)
          /\ module_attrs' = IF st.op = "setattr" /\ did
                             THEN [module_attrs EXCEPT ![st.arg] = "patched"]
                             ELSE module_attrs
    /\ UNCHANGED <<sys_stdout, ALLOWED_BUILTINS, dbVars, serviceVars>>

\* A slip of RestoredStdout: the stream is put back after the try statement
\* instead of in its finally block, so only when nothing was raised.
RestoredStdout_NotInFinally(call) ==
    IF call.error = NONE /\ call.raising = NONE THEN call.old_stdout ELSE sys_stdout

\* finally: sys.stdout = old_stdout
RestoredStdout(call) == call.old_stdout

\* if output: result['console_output'] = output
\* if error: result['error'] = error
Envelope(items, output, error) ==
    LET with_output == IF output # << >>
                       THEN ("console_output" :> "captured") @@ items ELSE items
    IN IF error # NONE THEN ("error" :> "record") @@ with_output ELSE with_output

\* The finally block and the rest of run_model: the stream is put back and
\* the captured text taken; an exception that was not caught goes on to the
\* caller; otherwise console_output and error are stored into result (a
\* TypeError when result is not a mapping) and result is returned.
Finally(c) ==
    /\ calls[c].pc = "finally"
    /\ LET call == calls[c]
           output == call.new_stdout
           stores == output # << >> \/ call.error # NONE
       IN /\ sys_stdout' = RestoredStdout(call)
          /\ calls' = [calls EXCEPT ![c] =
                IF call.raising # NONE THEN EndCall(call, "raised")
                ELSE IF stores /\ call.result # "dict"
                     THEN EndCall([call EXCEPT !.raising = Some("TypeError"),
                                               !.error = NONE], "raised")
                ELSE EndCall([call EXCEPT
                                !.console_output =
                                    IF output # << >> THEN Some(output) ELSE NONE,
                                !.returned = Envelope(call.items, output, call.error)],
                             "returned")]
    /\ UNCHANGED <<ALLOWED_MODULES, ALLOWED_BUILTINS, effects, module_attrs, dbVars, serviceVars>>

\* Calls are made from the worker threads of the server: they start at any
\* time and their steps interleave.
RunNext ==
    \/ \E inp \in RunModelInputs : RunModel(inp)
    \/ \E c \in Calls : InstallStdout(c)
    \/ \E c \in Calls : ExecStatement(c)
    \/ \E c \in Calls : Finally(c)

RunSpec == Init /\ [][RunNext]_vars

\* Code texts that build a result, change what later runs see, or fail.
ResultPrograms ==
    {Source(TRUE, <<Stmt("bind", "a")>>),
     Source(TRUE, <<Stmt("bind", "table")>>),
     Source(TRUE, <<Stmt("bind", "a"), Stmt("del", "result")>>),
     Source(TRUE, <<Stmt("bind", "error")>>),
     Source(TRUE, <<Stmt("bind", "tau"), Stmt("setattr", "math")>>),
     Source(TRUE, <<Stmt("bind", "console_output"), Stmt("print", "")>>),
     Source(TRUE, <<Stmt("setparam", "n")>>),
     Source(TRUE, <<Stmt("call", "subprocess")>>),
     Source(TRUE, <<Stmt("raise", "NameError")>>),
     Source(TRUE, <<Stmt("print", "")>>)}

ResultInputs == {[code |-> Some(p), parameters |-> "mapping"] : p \in ResultPrograms}

\* The same calls, interleaving as in RunNext, on the code texts above.
ResultNext ==
    \/ \E inp \in ResultInputs : RunModel(inp)
    \/ \E c \in Calls : InstallStdout(c)
    \/ \E c \in Calls : ExecStatement(c)
    \/ \E c \in Calls : Finally(c)

ResultSpec == Init /\ [][ResultNext]_vars

\* ------------------------------------------------- generate_model_code
\* The templates are run on numbers kept exact: a rate is in percent (0.05 is
\* 5) and the series value after i steps is kept multiplied by 100^i.
MaxPeriods == 3

\* generate_model_code: the template generator chosen for a model_type.
TemplateFor(model_type) ==
    CASE model_type = "revenue" -> "revenue"
      [] model_type = "expense" -> "expense"
      [] model_type = "cash_flow" -> "cash_flow"
      [] OTHER -> "custom"

\* params.get(key, default) on the parameters record of nullable fields.
Get(params, key, default) ==
    IF key \in DOMAIN params /\ params[key] # NONE THEN params[key][1] ELSE default

\* The parameters a template run is given; periods is always passed.
TemplateParameters ==
    [initial_customers : {NONE, Some(100), Some(200)},
     monthly_growth_rate : {NONE, Some(5), Some(10)},
     churn_rate : {NONE, Some(0)},
     periods : {Some(n) : n \in 1..MaxPeriods}]

\* The model types asked for: the revenue template and a type with no
\* template of its own.
ModelTypes == {"revenue", "growth"}

\* The revenue loop body with the churn left out.
NetCustomers_NoChurn(customers, monthly_growth_rate, churn_rate) ==
    customers * (100 + monthly_growth_rate)

\* customers[i] = customers[i-1] + new_customers[i] - lost_customers[i], one
\* factor 100 more in the scale.
NetCustomers(customers, monthly_growth_rate, churn_rate) ==
    customers * 100 + customers * monthly_growth_rate - customers * churn_rate

\* values[i] = values[i-1] * (1 + growth_rate)
NextValue(value, growth_rate) == value * (100 + growth_rate)

\* generate_model_code and the start of the template's run by run_model, up
\* to the loop: the parameters are read with their defaults and the series
\* gets its first value.
GenerateModelCode(model_type, parameters) ==
    /\ template.pc \in {"none", "done"}
    /\ LET kind == TemplateFor(model_type)
       IN template' =
            [pc |-> "loop", model_type |-> model_type, parameters |-> parameters,
             kind |-> kind, i |-> 1,
             periods |-> Get(parameters, "periods", 36),
             rate |-> IF kind = "revenue"
                      THEN Get(parameters, "monthly_growth_rate", 5)
                      ELSE Get(parameters, "growth_rate", 2),
             churn_rate |-> Get(parameters, "churn_rate", 2),
             series |-> IF kind = "revenue"
                        THEN Get(parameters, "initial_customers", 100)
                        ELSE Get(parameters, "initial_value", 1000),
             summary |-> EmptyMapping]
    /\ UNCHANGED <<dbVars, runnerVars, conversations, chat>>

\* One turn of `for i in range(1, periods)`, or after the last turn the
\* summary stored in result: the last value of the series, multiplied by
\* 100^(periods - 1).
TemplateStep ==
    /\ template.pc = "loop"
    /\ template' =
          IF template.i < template.periods
          THEN [template EXCEPT
                  !.i = @ + 1,
                  !.series = IF template.kind = "revenue"
                             THEN NetCustomers(@, template.rate, template.churn_rate)
                             ELSE NextValue(@, template.rate)]
          ELSE [template EXCEPT
                  !.pc = "done",
                  !.summary = IF template.kind = "revenue"
                              THEN [k \in {"final_customer_count"} |-> template.series]
                              ELSE [k \in {"final_value"} |-> template.series]]
    /\ UNCHANGED <<dbVars, runnerVars, conversations, chat>>

TemplateNext ==
    \/ \E model_type \in ModelTypes : \E parameters \in TemplateParameters :
          GenerateModelCode(model_type, parameters)
    \/ TemplateStep

TemplateSpec == Init /\ [][TemplateNext]_vars

\* --------------------------------------------------- get_model_response
\* Calls that completed on one conversation, one after the other, before the
\* calls that are followed step by step.
PriorCalls == 4
\* Number of get_model_response calls that are followed step by step.
MaxChatCalls == 3

\* conversation["messages"][-10:]
HistoryLimit == 10

\* A message of a conversation; its content is named by the call that
\* appended it.
Message(role, call) == [role |-> role, call |-> call]

\* The slice without its limit: the whole list.
LastMessages_All(messages, n) == messages

\* messages[-n:]
LastMessages(messages, n) ==
    IF Len(messages) <= n THEN messages
    ELSE SubSeq(messages, Len(messages) - n + 1, Len(messages))

\* The conversation_id a client sends: none, that of the conversation of the
\* earlier calls, or one the service does not hold, and any id a call was
\* given back. The uuid4 made for call c is written c.
EarlierId == 0
ClientIds == {NONE, Some(EarlierId), Some(50)} \cup {Some(id) : id \in DOMAIN conversations}

\* The messages of the earlier calls: user message and assistant reply of
\* each in turn.
EarlierMessages ==
    [i \in 1..(2 * PriorCalls) |->
        IF i % 2 = 1 THEN Message("user", (i + 1) \div 2)
                     ELSE Message("assistant", i \div 2)]

EarlierCalls ==
    [c \in 1..PriorCalls |->
        [conversation_id |-> EarlierId, pc |-> "done",
         api_messages |-> LastMessages(SubSeq(EarlierMessages, 1, 2 * c - 1), HistoryLimit),
         reply |-> Some("assistant")]]

\* The service after the earlier calls.
ChatInit ==
    /\ Startup
    /\ conversations = (EarlierId :> EarlierMessages)
    /\ chat = EarlierCalls

ChatCalls == 1..Len(chat)

\* get_model_response up to its await: the conversation is created when no
\* id was sent or the id is not held, the user message is appended and the
\* history for the API taken from the conversation. The system message that
\* precedes the history in api_messages is left out.
GetModelResponse(conversation_id) ==
    /\ Len(chat) < PriorCalls + MaxChatCalls
    /\ LET c == Len(chat) + 1
           id == IF conversation_id = NONE THEN c ELSE conversation_id[1]
           held == IF id \in DOMAIN conversations THEN conversations[id] ELSE << >>
           messages == Append(held, Message("user", c))
       IN /\ conversations' = (id :> messages) @@ conversations
          /\ chat' = Append(chat, [conversation_id |-> id, pc |-> "awaiting",
                                   api_messages |-> LastMessages(messages, HistoryLimit),
                                   reply |-> NONE])
    /\ UNCHANGED <<dbVars, runnerVars, template>>

\* The await ends: the assistant message is appended when the API answered,
\* a system message with the error when it raised.
Reply(c, answered) ==
    /\ chat[c].pc = "awaiting"
    /\ LET role == IF answered THEN "assistant" ELSE "system"
           id == chat[c].conversation_id
       IN /\ conversations' = [conversations EXCEPT ![id] = Append(@, Message(role, c))]
          /\ chat' = [chat EXCEPT ![c].pc = "done", ![c].reply = Some(role)]
    /\ UNCHANGED <<dbVars, runnerVars, template>>

\* Calls on the one event loop: they interleave at the await.
ChatNext ==
    \/ \E conversation_id \in ClientIds : GetModelResponse(conversation_id)
    \/ \E c \in ChatCalls, answered \in BOOLEAN : Reply(c, answered)

ChatSpec == ChatInit /\ [][ChatNext]_vars

\* ------------------------------------------------------------------ claims
\* The versions with the highest version_number of a model.
LatestVersions(mid) ==
    {v \in VersionsOf(mid) : \A w \in VersionsOf(mid) : w.version_number <= v.version_number}

\* The Model's current code and parameters are those of a latest Version.
Consistent(mid) ==
    \E v \in LatestVersions(mid) :
        v.code = models[mid].code /\ v.parameters = models[mid].parameters

RequestsOn(mid) == {r \in Requests : req[r].mid = mid}

\* C1: executed one at a time, creates and updates leave every Model with the
\* version numbers 1..n, n its number of Versions: no gap and no duplicate.
C1_VersionNumbersContiguous ==
    \A mid \in DOMAIN models :
        {v.version_number : v \in VersionsOf(mid)} = 1..Cardinality(VersionsOf(mid))

C1_Witness ==
    \E mid \in DOMAIN models :
        /\ Cardinality(VersionsOf(mid)) = 2
        /\ \E r \in RequestsOn(mid) :
              req[r].kind = "update" /\ req[r].pc = "done" /\ ~req[r].inserted

\* C2: two concurrent content-changing updates of one Model are never given
\* the same version_number.
C2_DistinctVersionNumbers ==
    \A v, w \in versions :
        (/\ req[v.by].kind = "update" /\ req[w.by].kind = "update"
         /\ v.model_id # NONE /\ v.model_id = w.model_id
         /\ v.version_number = w.version_number) => v.id = w.id

\* Every update of the Model that has made its comparison changes content.
ContentChanging(mid) ==
    \A r \in RequestsOn(mid) : req[r].kind = "update" => req[r].create_new_version

\* C3: with content-changing updates only, every Version an update creates
\* holds the code/parameters that update supplied, and once the requests on a
\* Model are over, the Version of the update whose Model write committed last
\* has a higher version_number than the Versions of the other updates.
C3_AppliedInCommitOrder ==
    [][\A mid \in DOMAIN models :
          ContentChanging(mid) =>
              /\ \A v \in versions' \ versions :
                    (v.model_id = Some(mid) /\ req[v.by].kind = "update") =>
                        \A f \in {"code", "parameters"} \cap req[v.by].inp.fields_set :
                            v[f] = req[v.by].inp[f]
              /\ LET last == lastWrite'[mid]
                 IN (/\ mid \in DOMAIN models'
                     /\ \A r \in 1..Len(req') : req'[r].mid = mid => req'[r].pc = "done"
                     /\ req'[last].kind = "update" /\ req'[last].inserted)
                    => \A v \in versions' : \A w \in versions' :
                           (/\ v.model_id = Some(mid) /\ w.model_id = Some(mid)
                            /\ v.by = last /\ w.by # last /\ req'[w.by].kind = "update")
                               => w.version_number < v.version_number]_vars

\* The incoming code or parameters (None included, when the body names the
\* field) differ from the current ones.
IncomingDiffers(inp, row) ==
    \E f \in {"code", "parameters"} \cap inp.fields_set : inp[f] # row[f]

\* C4: an update creates a new Version if and only if the incoming code or
\* parameters differ from the Model's current ones.
C4_VersionIffChanged ==
    \A r \in Requests :
        req[r].kind = "update" =>
            /\ req[r].pc = "commit" =>
                  (req[r].create_new_version <=> IncomingDiffers(req[r].inp, req[r].loaded))
            /\ req[r].pc = "done" => (req[r].inserted <=> req[r].create_new_version)

\* C5: no step of an update that arrived with code and parameters identical
\* to the stored ones changes the set of Versions, whatever else it changes.
C5_IdenticalUpdateKeepsVersions ==
    [][\A r \in Requests :
          (req[r].kind = "update" /\ req[r].identical /\ InFlight(r))
              => versions' = versions]_vars

C5_Witness ==
    \E r1, r2 \in Requests :
        /\ r1 < r2 /\ req[r1].mid = req[r2].mid
        /\ \A r \in {r1, r2} :
              req[r].kind = "update" /\ req[r].pc = "done" /\ req[r].identical
        /\ req[r1].wrote
        /\ Cardinality(VersionsOf(req[r1].mid)) = 1

\* C6: when the requests on a Model have completed, its code and parameters
\* are those of its Version with the highest version_number.
C6_ModelEqualsLatestVersion ==
    \A mid \in DOMAIN models :
        (\A r \in RequestsOn(mid) : req[r].pc = "done") => Consistent(mid)

\* C7: no committed state has the Model write of a content-changing update
\* without the Version of that update.
C7_VersionWithModelWrite ==
    \A r \in Requests :
        (req[r].kind = "update" /\ req[r].create_new_version /\ req[r].wrote)
            => req[r].inserted

\* C8: no committed state has a Model without its initial Version, number 1.
C8_ModelHasInitialVersion ==
    \A mid \in DOMAIN models :
        \E v \in VersionsOf(mid) : v.version_number = 1 /\ req[v.by].kind = "create"

\* The write of request r was applied in part: its Model row committed, the
\* request failed before its Version was inserted.
PartiallyApplied(r) ==
    /\ req[r].pc = "failed"
    /\ req[r].wrote /\ req[r].create_new_version /\ ~req[r].inserted

\* C9: a partially applied write is reconciled by a later read or update:
\* once a read or an update of the Model that came after the failed write has
\* completed, the Model's code and parameters are those of its latest Version.
C9_PartialWriteReconciled ==
    \A mid \in DOMAIN models :
        \A r1 \in RequestsOn(mid) : \A r2 \in RequestsOn(mid) :
            (/\ r1 < r2 /\ PartiallyApplied(r1)
             /\ req[r2].kind \in {"get", "update"} /\ req[r2].pc = "done")
                => Consistent(mid)

\* C10: a Version remains in the store only while the Model it was created
\* for exists.
C10_DeleteRemovesVersions ==
    \A v \in versions : req[v.by].mid \in DOMAIN models

\* The step deletes the Model the Version v belongs to.
OwnModelDeleted(v) ==
    /\ v.model_id # NONE
    /\ v.model_id[1] \in DOMAIN models
    /\ v.model_id[1] \notin DOMAIN models'

\* C11: no step of create, update, run, list versions, get version, or of the
\* delete of another Model changes a field of a Version that exists: the
\* Version with the same id has the same model_id, version_number, code,
\* parameters and description after the step.
C11_VersionImmutable ==
    [][\A v \in versions : \A w \in versions' :
          (w.id = v.id /\ ~OwnModelDeleted(v)) => w = v]_vars

\* Another Model was deleted after a Version of an existing Model was created.
C11_Witness ==
    \E v \in versions : \E r \in Requests :
        /\ v.model_id # NONE /\ v.model_id[1] \in DOMAIN models
        /\ req[r].kind = "delete" /\ req[r].pc = "done"
        /\ Some(req[r].mid) # v.model_id /\ v.by < r

\* ------------------------------------------------------- claims: run_model
\* The call is well-formed: code is a text and parameters a mapping.
WellFormed(call) == call.code # NONE /\ call.parameters = "mapping"

\* C12: a call with well-formed inputs never ends by raising to its caller,
\* whatever the code does (rebinding result to a non-mapping, raising).
C12_NeverRaises ==
    \A c \in Calls : WellFormed(calls[c]) => calls[c].pc # "raised"

\* C13: when the executed code raised an exception, the call returns a result
\* whose error record has the exception's type name; nothing is re-raised.
C13_ExceptionReturnedAsData ==
    \A c \in Calls :
        (calls[c].pc \in Ended /\ calls[c].thrown # NONE)
            => (calls[c].pc = "returned" /\ calls[c].error = calls[c].thrown)

\* C14: a call whose code does not parse returns a result with the parse
\* error, has executed no statement of the code, and its result has no
\* console_output.
C14_SyntaxErrorExecutesNothing ==
    \A c \in Calls :
        (calls[c].pc \in Ended /\ calls[c].code # NONE /\ ~calls[c].code[1].parses)
            => /\ calls[c].pc = "returned"
               /\ calls[c].error = Some("SyntaxError")
               /\ calls[c].executed = 0
               /\ calls[c].console_output = NONE

\* C15: a malformed call (code None, or parameters not a mapping) ends by
\* raising to its caller and never by returning a result with an error record.
C15_MalformedCallRaises ==
    \A c \in Calls :
        (calls[c].pc \in Ended /\ ~WellFormed(calls[c]))
            => (calls[c].pc = "raised" /\ calls[c].error = NONE)

\* The spec leaves the limit to configuration; the claim is checked for the
\* largest limit the model can see exceeded.
ExecutionBudget == MaxTicks - 1

\* C16: code that has run past the execution budget is not running any more:
\* the call has returned a result with a TimeoutError.
C16_BudgetEnforced ==
    \A c \in Calls :
        calls[c].ticks > ExecutionBudget
            => (calls[c].pc = "returned" /\ calls[c].error = Some("TimeoutError"))

\* C17: the console_output of a returned call whose code printed is exactly
\* the text its own code printed: none of another call's text, none of its
\* own missing.
C17_OwnConsoleOutputOnly ==
    \A c \in Calls :
        (calls[c].pc = "returned" /\ calls[c].printed > 0)
            => calls[c].console_output = Some([i \in 1..calls[c].printed |-> c])

\* C18: on every exit path, the step in which a call returns or raises leaves
\* sys.stdout the stream that was installed when the call started.
C18_StdoutRestoredOnExit ==
    [][\A c \in Calls :
          (calls[c].pc \notin Ended /\ calls'[c].pc \in Ended)
              => sys_stdout' = calls[c].old_stdout]_vars

\* Calls have ended on each path: code that ran to its end, code that did not
\* parse, code whose exception was caught, and one that went on to the caller.
C18_Witness ==
    /\ \E c \in Calls : calls[c].pc = "returned" /\ calls[c].error = NONE
    /\ \E c \in Calls : calls[c].pc \in Ended /\ calls[c].thrown # NONE
    /\ sys_stdout = Terminal

\* The statement uses a name that is in neither registry dict and is not
\* parameters or result.
Disallowed(st) ==
    /\ st.op \in {"call", "import"}
    /\ st.arg \notin DOMAIN StartupModules \cup DOMAIN StartupBuiltins
                        \cup {"parameters", "result"}

\* C19: a call whose code uses a disallowed name performs no action on the
\* host through it, and ends with a reported error.
C19_DisallowedNameFails ==
    \A c \in Calls :
        (calls[c].code # NONE /\ calls[c].code[1].parses
         /\ \E i \in DOMAIN calls[c].code[1].stmts : Disallowed(calls[c].code[1].stmts[i]))
            => /\ \A e \in effects : e[1] # c
               /\ calls[c].pc \in Ended
                     => (calls[c].pc = "returned" /\ calls[c].error # NONE)

\* C20: the registry dicts are as at startup in every state, and every call
\* starts with namespaces built from those bindings.
C20_RegistryUnchanged ==
    /\ ALLOWED_MODULES = StartupModules
    /\ ALLOWED_BUILTINS = StartupBuiltins
    /\ \A c \in Calls :
          calls[c].pc = "install"
              => /\ calls[c].globals_dict = StartupModules
                 /\ calls[c].locals_dict = LocalsDict(StartupBuiltins, calls[c].parameters)

\* A call starts after another call's code deleted a builtin's name and
\* rebound a module's name through `global`.
C20_Witness ==
    \E c1, c2 \in Calls :
        /\ c1 < c2
        /\ calls[c1].code = Some(Source(TRUE, <<Stmt("del", "print"), Stmt("global", "math")>>))
        /\ calls[c1].pc = "returned" /\ calls[c1].executed = 2
        /\ calls[c2].pc = "install"

\* The keys run_model itself writes into the mapping it returns.
EnvelopeKeys == {"console_output", "error"}

\* The code bound result to a mapping of plain values under keys of its own.
PlainBinding(call) ==
    /\ DOMAIN call.bound # {}
    /\ \A k \in DOMAIN call.bound :
          k \notin EnvelopeKeys /\ call.bound[k] # "DataFrame"

\* C21: a returned call whose code bound result to a mapping of plain values,
\* raised nothing and printed nothing returns exactly that mapping, with no
\* error key (and no other key) added.
C21_ResultReturnedExactly ==
    \A c \in Calls :
        (calls[c].pc = "returned" /\ calls[c].thrown = NONE
         /\ calls[c].printed = 0 /\ PlainBinding(calls[c]))
            => calls[c].returned = calls[c].bound

\* The code of the call ran to its end and left result a mapping or unset.
Normalized(call) ==
    /\ call.pc \in {"finally", "returned"} /\ call.thrown = NONE
    /\ call.code # NONE /\ call.code[1].parses /\ call.result = "dict"

\* C22: after the read-back, run_model's result holds the keys of the code's
\* final result binding (none when result is unset), each DataFrame value
\* replaced by its rows and every other value as the code left it; the
\* returned mapping holds the same under every key that is not
\* console_output or error.
C22_ResultNormalized ==
    \A c \in Calls :
        Normalized(calls[c])
            => /\ DOMAIN calls[c].items = DOMAIN calls[c].bound
               /\ \A k \in DOMAIN calls[c].bound :
                     calls[c].items[k] = IF calls[c].bound[k] = "DataFrame"
                                         THEN "rows" ELSE calls[c].bound[k]
               /\ calls[c].pc = "returned"
                     => /\ DOMAIN calls[c].returned \ EnvelopeKeys
                             = DOMAIN calls[c].items \ EnvelopeKeys
                        /\ \A k \in DOMAIN calls[c].items \ EnvelopeKeys :
                              calls[c].returned[k] = calls[c].items[k]

\* One call returned the rows of the DataFrame its code stored, another an
\* empty result after its code deleted the name result.
C22_Witness ==
    /\ \E c \in Calls :
          /\ calls[c].pc = "returned" /\ "table" \in DOMAIN calls[c].bound
          /\ calls[c].returned["table"] = "rows"
    /\ \E c \in Calls :
          /\ calls[c].pc = "returned" /\ calls[c].executed = 2
          /\ calls[c].code = Some(Source(TRUE, <<Stmt("bind", "a"), Stmt("del", "result")>>))
          /\ DOMAIN calls[c].returned = {}

\* C23: two returned calls with the same code and parameters have equal
\* results (console text aside), whatever ran before or between them, and no
\* call has changed the parameters mapping its caller passed.
C23_PureFunctionOfInputs ==
    /\ \A c1, c2 \in Calls :
          (calls[c1].pc = "returned" /\ calls[c2].pc = "returned"
           /\ calls[c1].code = calls[c2].code
           /\ calls[c1].parameters = calls[c2].parameters)
              => calls[c1].items = calls[c2].items
    /\ \A c \in Calls : calls[c].parameter_keys = {}

\* The call failed on a statement that uses a disallowed name.
CapabilityFailure(call) ==
    /\ call.pc = "returned" /\ call.thrown # NONE
    /\ Disallowed(call.code[1].stmts[call.ip])

\* The call failed on a statement that uses no disallowed name.
OrdinaryFailure(call) ==
    /\ call.pc = "returned" /\ call.thrown # NONE
    /\ ~Disallowed(call.code[1].stmts[call.ip])

\* C24: the error kind reported for a failure on a disallowed name differs
\* from the kind reported for any ordinary failure of the executed code.
C24_CapabilityViolationDistinct ==
    \A c1, c2 \in Calls :
        (CapabilityFailure(calls[c1]) /\ OrdinaryFailure(calls[c2]))
            => calls[c1].error # calls[c2].error

\* C26: once every call that started has ended, sys.stdout is the stream
\* that was installed before the first call started.
C26_StdoutOriginalWhenQuiet ==
    (Calls # {} /\ \A c \in Calls : calls[c].pc \in Ended)
        => sys_stdout = Terminal

\* C27: the returned mapping has the key error exactly when the execution
\* failed and the key console_output exactly when the code printed, and every
\* key the code stored in result has the value the code gave it.
C27_EnvelopeKeysReserved ==
    \A c \in Calls :
        calls[c].pc = "returned"
            => /\ "error" \in DOMAIN calls[c].returned <=> calls[c].error # NONE
               /\ "console_output" \in DOMAIN calls[c].returned <=> calls[c].printed > 0
               /\ \A k \in DOMAIN calls[c].items :
                     calls[c].returned[k] = calls[c].items[k]

\* base^exp
RECURSIVE Pow(_, _)
Pow(base, exp) == IF exp = 0 THEN 1 ELSE base * Pow(base, exp - 1)

\* The parameters {initial_customers: 100, monthly_growth_rate: 0.05, periods: 3}.
GrowthExample ==
    [initial_customers |-> Some(100), monthly_growth_rate |-> Some(5),
     churn_rate |-> NONE, periods |-> Some(3)]

\* C25 as stated: a template run on the example parameters ends with a final
\* customer count of 100 x 1.05^2.
C25_GrowthCompounds ==
    (template.pc = "done" /\ template.parameters = GrowthExample)
        => /\ "final_customer_count" \in DOMAIN template.summary
           /\ template.summary["final_customer_count"] = 100 * Pow(105, 2)

\* C25 amended: a run of the revenue template ends with a final customer
\* count of initial_customers x (1 + monthly_growth_rate - churn_rate)^(periods - 1),
\* churn_rate being 0.02 when not passed: 100 x 1.03^2 on the example
\* parameters.
C25_GrowthNetOfChurn ==
    (template.pc = "done" /\ template.model_type = "revenue")
        => /\ DOMAIN template.summary = {"final_customer_count"}
           /\ template.summary["final_customer_count"] =
                 Get(template.parameters, "initial_customers", 100)
                   * Pow(100 + Get(template.parameters, "monthly_growth_rate", 5)
                             - Get(template.parameters, "churn_rate", 2),
                         template.periods - 1)
           /\ template.parameters = GrowthExample
                 => template.summary["final_customer_count"] = 100 * Pow(103, 2)

\* The revenue template has run to its end on the example parameters.
C25_Witness ==
    /\ template.pc = "done" /\ template.model_type = "revenue"
    /\ template.parameters = GrowthExample /\ template.i = 3

\* C28: a run with override parameters leaves the Model rows and the Versions
\* as they were, runs the code on the stored parameters overridden key by key,
\* and returns the Model with its stored parameters.
C28_RunLeavesModelUnchanged ==
    [][\A r \in Requests :
          (req[r].kind = "run" /\ req[r].pc = "loaded" /\ req'[r].pc = "done"
           /\ req[r].inp.parameters # NONE)
              => /\ models' = models /\ versions' = versions
                 /\ req'[r].ran_on = Some(Merge(models[req[r].mid].parameters[1],
                                                req[r].inp.parameters[1]))
                 /\ req'[r].shown = models[req[r].mid].parameters]_vars

\* C29: an update or delete request by a user who is not the Model's owner
\* is rejected, whether the Model is public or not.
C29_OwnerOnlyWrites ==
    \A r \in Requests :
        (req[r].foreign /\ req[r].kind \in {"update", "delete"})
            => req[r].pc = "rejected"

\* Where in its conversation the messages of call c are: its user message and
\* its replies.
UserAt(c) ==
    {i \in DOMAIN conversations[chat[c].conversation_id] :
        conversations[chat[c].conversation_id][i] = Message("user", c)}
RepliesAt(c) ==
    {i \in DOMAIN conversations[chat[c].conversation_id] :
        /\ conversations[chat[c].conversation_id][i].call = c
        /\ conversations[chat[c].conversation_id][i].role \in {"assistant", "system"}}

\* C30: every call has its user message in its conversation once; a call
\* that has returned has exactly one reply there, after its user message, and
\* a call that is waiting none; and the history a call sent to the API is
\* the messages of the conversation up to its own user message, the last
\* HistoryLimit of them at most.
C30_EachCallRecordsItsPair ==
    \A c \in ChatCalls :
        LET messages == conversations[chat[c].conversation_id]
            sent == chat[c].api_messages
        IN /\ Cardinality(UserAt(c)) = 1
           /\ chat[c].pc = "awaiting" => RepliesAt(c) = {}
           /\ chat[c].pc = "done"
                 => /\ Cardinality(RepliesAt(c)) = 1
                    /\ \A i \in UserAt(c), j \in RepliesAt(c) :
                          i < j /\ messages[j].role = chat[c].reply[1]
           /\ Len(sent) <= HistoryLimit
           /\ \A u \in UserAt(c) :
                 /\ Len(sent) = IF u < HistoryLimit THEN u ELSE HistoryLimit
                 /\ \A k \in 1..Len(sent) : sent[k] = messages[u - Len(sent) + k]

\* Two calls overlapped on a conversation that held more than HistoryLimit
\* messages: the second sent its user message before the first got its
\* reply, both have returned, one with an answer and one with an error, and
\* the second sent HistoryLimit messages.
C30_Witness ==
    \E c1, c2 \in ChatCalls :
        /\ c1 < c2 /\ chat[c1].conversation_id = chat[c2].conversation_id
        /\ chat[c1].pc = "done" /\ chat[c2].pc = "done"
        /\ chat[c1].reply # chat[c2].reply
        /\ \A u \in UserAt(c2), j \in RepliesAt(c1) : u < j /\ u > HistoryLimit
        /\ Len(chat[c2].api_messages) = HistoryLimit

====
